---- MODULE Spec2Model ----
(***************************************************************************)
(* Shannon Crypto: the multi-tool consensus engine (ConsensusEngine) and   *)
(* the multi-chain workspace store (MultiChainWorkspaceManager), with the   *)
(* provider fallback of the RPC manager (RPCManager).                      *)
(*                                                                         *)
(* Numbers.  Confidence scores and tool weights are JavaScript numbers.    *)
(* They are kept here as integers in hundredths (SCALE = 100 stands for    *)
(* 1.0), so that the weight 0.40 is 40 and the score 100 is 10000.  NaN,   *)
(* which JavaScript arithmetic yields on `undefined`, is the value NaN     *)
(* below, and the Num* operators propagate it as IEEE arithmetic does.     *)
(***************************************************************************)
EXTENDS Integers, Sequences, FiniteSets, TLC

VARIABLES
    pc,          \* position of the engine's caller: "input", "combined", "filtered"; "list", "reduced"
    results,     \* ToolResult[] handed to combineResults
    processed,   \* the Vulnerability[] the caller holds (combine's output, then the filtered list)
    consensus,   \* ConsensusResult.consensus returned by combineResults
    before,      \* the list that was handed to the latest reduceFalsePositives call
    passes,      \* how many reduceFalsePositives calls the caller has made
    workspaces,  \* this.workspaces of every manager instance: manager -> (workspaceId -> ChainWorkspace)
    disk,        \* <workspaceDir>/<id>/workspace.json: workspaceId -> persisted document
    files,       \* the report files: path -> text
    now,         \* the wall clock read by `new Date()`
    calls,       \* the calls made on the store so far, with their outcomes
    providers,   \* RPCManager.providers, as the constructor sorted them
    currentIndex, \* RPCManager.currentIndex
    rpc          \* every caller of RPCManager.call: where its call stands

engineVars == <<pc, results, processed, consensus, before, passes>>

storeVars == <<workspaces, disk, files, now, calls>>

rpcVars == <<providers, currentIndex, rpc>>

vars == <<pc, results, processed, consensus, before, passes, workspaces, disk, files, now, calls,
         providers, currentIndex, rpc>>

-----------------------------------------------------------------------------
(* Bounds of the model *)

\* at most this many raw findings in one combineResults input, all sources together
MaxFindings == 4
\* at most this many findings in a list handed directly to reduceFalsePositives
MaxListLen == 2
\* the caller applies reduceFalsePositives at most this many times in a row
MaxPasses == 2
\* at most this many providers are given to the RPCManager constructor
MaxProviders == 3
\* the `retries` argument of RPCManager.call is at most this
MaxRetries == 3
\* the callers of the RPC manager make at most this many calls
MaxRpcCalls == 2

-----------------------------------------------------------------------------
(* JavaScript numbers *)

SCALE == 100
NaN == -1

NumAdd(a, b) == IF a = NaN \/ b = NaN THEN NaN ELSE a + b
NumMul(a, b) == IF a = NaN \/ b = NaN THEN NaN ELSE a * b
NumLt(a, b) == a # NaN /\ b # NaN /\ a < b
NumMin(a, b) == IF a = NaN \/ b = NaN THEN NaN ELSE IF a < b THEN a ELSE b

\* String.prototype.includes
Includes(s, p) == \E i \in 1..(Len(s) - Len(p) + 1) : SubSeq(s, i, i + Len(p) - 1) = p

-----------------------------------------------------------------------------
(* ConsensusEngine *)

\* this.toolWeights, in hundredths
toolWeights == [slither |-> 40, mythril |-> 30, echidna |-> 20, medusa |-> 10, ai |-> 50]

\* this.toolWeights[tool]: undefined (NaN in arithmetic) for a key not in the table
WeightOf(tool) == IF tool \in DOMAIN toolWeights THEN toolWeights[tool] ELSE NaN

\* finding.tool: the Vulnerability interface has no `tool` property, and
\* groupFindings adds `tools`, not `tool`
FindingTool(finding) == IF "tool" \in DOMAIN finding THEN finding["tool"] ELSE "undefined"

\* a grouping key that leaves the severity out
GroupKeyWithoutSeverity(vuln) == vuln.file \o ":" \o ToString(vuln.lineStart)

\* the grouping key of groupFindings
GroupKey(vuln) == vuln.file \o ":" \o ToString(vuln.lineStart) \o "-" \o vuln.severity

\* the vulnerabilities of one ToolResult, each tagged tools = {[result.tool]: true}
TagAll(result) ==
    [i \in 1..Len(result.vulnerabilities) |->
        [result.vulnerabilities[i] EXCEPT !.tools = {result.tool}]]

RECURSIVE Flatten(_)
Flatten(rs) == IF rs = <<>> THEN <<>> ELSE TagAll(Head(rs)) \o Flatten(Tail(rs))

\* the elements of s in order of first occurrence (insertion order of a Map / object)
RECURSIVE FirstSeen(_)
FirstSeen(s) ==
    IF s = <<>> THEN <<>>
    ELSE LET front == FirstSeen(SubSeq(s, 1, Len(s) - 1))
             last == s[Len(s)]
         IN IF \E i \in 1..Len(front) : front[i] = last THEN front ELSE Append(front, last)

groupFindings(rs) ==
    LET flat == Flatten(rs)
        keys == FirstSeen([i \in 1..Len(flat) |-> GroupKey(flat[i])])
    IN [k \in 1..Len(keys) |-> SelectSeq(flat, LAMBDA v : GroupKey(v) = keys[k])]

severityMap == [critical |-> 3, high |-> 2, medium |-> 1, low |-> 0]

RECURSIVE Join(_, _)
Join(tools, sep) ==
    IF tools = <<>> THEN ""
    ELSE IF Len(tools) = 1 THEN tools[1]
    ELSE tools[1] \o sep \o Join(Tail(tools), sep)

RECURSIVE SumWeights(_)
SumWeights(tools) ==
    IF tools = <<>> THEN 0 ELSE NumAdd(WeightOf(tools[Len(tools)]), SumWeights(SubSeq(tools, 1, Len(tools) - 1)))

mergeFindings(group, tools) ==
    LET base == group[1]
        descriptions == SelectSeq([i \in 1..Len(group) |-> group[i].description], LAMBDA d : d # "")
        mergedDescription ==
            IF Len(descriptions) > 1
            THEN base.title \o " - " \o Join(tools, ", ") \o " detected"
            ELSE base.description
        maxSeverityIndex ==
            CHOOSE m \in {severityMap[group[i].severity] : i \in 1..Len(group)} :
                \A i \in 1..Len(group) : severityMap[group[i].severity] <= m
        mergedSeverity == CHOOSE key \in DOMAIN severityMap : severityMap[key] = maxSeverityIndex
    IN [base EXCEPT !.title = mergedDescription,
                    !.description = mergedDescription,
                    !.severity = mergedSeverity,
                    !.tools = {tools[i] : i \in 1..Len(tools)},
                    !.confidence = "medium",
                    !.confidenceScore = SumWeights(tools)]

\* toolAgreements[tool]: the number of findings of the group that carry the tool
ToolAgreements(group, tool) == Cardinality({i \in 1..Len(group) : tool \in group[i].tools})

\* the keys of toolAgreements in insertion order; every grouped finding carries one tool
ToolOrder(group) == FirstSeen([i \in 1..Len(group) |-> CHOOSE t \in group[i].tools : TRUE])

AgreedTools(group) == SelectSeq(ToolOrder(group), LAMBDA t : ToolAgreements(group, t) >= 2)

calculateConsensus(group) ==
    IF Len(group) = 1
    THEN [agreed |-> FALSE, conflict |-> FALSE, finding |-> group[1], findings |-> group]
    ELSE LET agreedTools == AgreedTools(group) IN
         IF Len(agreedTools) >= 2
         THEN [agreed |-> TRUE, conflict |-> FALSE,
               finding |-> [mergeFindings(group, agreedTools) EXCEPT
                               \* `let confidence: 'medium'` declares a type, not a value
                               !.confidence = IF Len(agreedTools) >= 3 THEN "high" ELSE "undefined",
                               !.confidenceScore = SumWeights(agreedTools)],
               findings |-> group]
         ELSE [agreed |-> FALSE, conflict |-> Len(group) > 1, finding |-> group[1], findings |-> group]

\* the first entry of toolWeights sorted by weight, descending
MaxTool == CHOOSE t \in DOMAIN toolWeights : \A u \in DOMAIN toolWeights : toolWeights[u] <= toolWeights[t]

resolveConflict(group, findings) ==
    LET trusted == SelectSeq(findings, LAMBDA f : MaxTool \in f.tools)
    IN IF trusted = <<>> THEN findings[1]
       ELSE [trusted[1] EXCEPT !.confidence = "high",
                               !.confidenceScore = 100 * SCALE,
                               !.tools = @ \cup {MaxTool}]

\* the finding combineResults pushes for one group
ProcessGroup(group) ==
    LET c == calculateConsensus(group) IN
    IF c.agreed THEN c.finding
    ELSE IF c.conflict THEN resolveConflict(group, c.findings)
    ELSE [group[1] EXCEPT !.confidence = "low",
                          !.confidenceScore = NumMul(WeightOf(FindingTool(group[1])), 50)]

\* combineResults with `total` counting the sources instead of the groups
combineResultsCountingSources(rs) ==
    LET findings == groupFindings(rs) IN
    [vulnerabilities |-> [g \in 1..Len(findings) |-> ProcessGroup(findings[g])],
     consensus |-> [total |-> Len(rs), agreed |-> 0, conflicts |-> 0, overrides |-> 0]]

\* The loop declares `const consensus = this.calculateConsensus(group)`, which
\* shadows the counters: the increments land on that per-group object, and the
\* returned counters only receive `consensus.total = findings.length`.
combineResults(rs) ==
    LET findings == groupFindings(rs) IN
    [vulnerabilities |-> [g \in 1..Len(findings) |-> ProcessGroup(findings[g])],
     consensus |-> [total |-> Len(findings), agreed |-> 0, conflicts |-> 0, overrides |-> 0]]

\* `vuln.location.file` in groupFindings: reading a property of `undefined` throws
\* a TypeError when some finding has no location
ThrowsTypeError(rs) ==
    \E i \in 1..Len(rs) : \E j \in 1..Len(rs[i].vulnerabilities) :
        "file" \notin DOMAIN rs[i].vulnerabilities[j]

\* isLikelyFalsePositive whose fourth pattern ignores the number of tools
isLikelyFalsePositiveAnyLow(vuln) ==
    \/ vuln.severity = "low" /\ vuln.confidence = "low"
    \/ Includes(vuln.file, ".t.sol") \/ Includes(vuln.file, "test")
    \/ Includes(vuln.description, "variable") \/ Includes(vuln.description, "storage slot")
    \/ vuln.confidence = "low"

isLikelyFalsePositive(vuln) ==
    \/ vuln.severity = "low" /\ vuln.confidence = "low"
    \/ Includes(vuln.file, ".t.sol") \/ Includes(vuln.file, "test")
    \/ Includes(vuln.description, "variable") \/ Includes(vuln.description, "storage slot")
    \/ vuln.confidence = "low" /\ Cardinality(vuln.tools) = 1

\* adjustConfidence with the low-to-medium step of the high-severity boost inverted
adjustConfidenceDowngrading(vuln) ==
    LET boost1 == vuln.severity = "critical" /\ NumLt(vuln.confidenceScore, 80 * SCALE)
        boost2 == ~boost1 /\ vuln.severity = "high" /\ NumLt(vuln.confidenceScore, 70 * SCALE)
        score1 == IF boost1 THEN NumMin(NumAdd(vuln.confidenceScore, 20 * SCALE), 100 * SCALE)
                  ELSE IF boost2 THEN NumMin(NumAdd(vuln.confidenceScore, 10 * SCALE), 100 * SCALE)
                  ELSE vuln.confidenceScore
        conf1 == IF boost1 THEN "high"
                 ELSE IF boost2 /\ vuln.confidence = "medium" THEN "low"
                 ELSE vuln.confidence
        multi == Cardinality(vuln.tools) >= 2
        score2 == IF multi THEN NumMin(NumAdd(score1, 15 * SCALE), 100 * SCALE) ELSE score1
        conf2 == IF multi /\ conf1 = "low" THEN "medium"
                 ELSE IF multi /\ conf1 = "medium" THEN "high"
                 ELSE conf1
    IN [vuln EXCEPT !.confidence = conf2, !.confidenceScore = score2]

\* adjustConfidence whose multi-tool boost is not capped at 100
adjustConfidenceUncapped(vuln) ==
    LET boost1 == vuln.severity = "critical" /\ NumLt(vuln.confidenceScore, 80 * SCALE)
        boost2 == ~boost1 /\ vuln.severity = "high" /\ NumLt(vuln.confidenceScore, 70 * SCALE)
        score1 == IF boost1 THEN NumMin(NumAdd(vuln.confidenceScore, 20 * SCALE), 100 * SCALE)
                  ELSE IF boost2 THEN NumMin(NumAdd(vuln.confidenceScore, 10 * SCALE), 100 * SCALE)
                  ELSE vuln.confidenceScore
        conf1 == IF boost1 THEN "high"
                 ELSE IF boost2 /\ vuln.confidence = "low" THEN "medium"
                 ELSE vuln.confidence
        multi == Cardinality(vuln.tools) >= 2
        score2 == IF multi THEN NumAdd(score1, 15 * SCALE) ELSE score1
        conf2 == IF multi /\ conf1 = "low" THEN "medium"
                 ELSE IF multi /\ conf1 = "medium" THEN "high"
                 ELSE conf1
    IN [vuln EXCEPT !.confidence = conf2, !.confidenceScore = score2]

\* adjustConfidence whose multi-tool boost caps the score at 80
adjustConfidenceCappedLow(vuln) ==
    LET boost1 == vuln.severity = "critical" /\ NumLt(vuln.confidenceScore, 80 * SCALE)
        boost2 == ~boost1 /\ vuln.severity = "high" /\ NumLt(vuln.confidenceScore, 70 * SCALE)
        score1 == IF boost1 THEN NumMin(NumAdd(vuln.confidenceScore, 20 * SCALE), 100 * SCALE)
                  ELSE IF boost2 THEN NumMin(NumAdd(vuln.confidenceScore, 10 * SCALE), 100 * SCALE)
                  ELSE vuln.confidenceScore
        conf1 == IF boost1 THEN "high"
                 ELSE IF boost2 /\ vuln.confidence = "low" THEN "medium"
                 ELSE vuln.confidence
        multi == Cardinality(vuln.tools) >= 2
        score2 == IF multi THEN NumMin(NumAdd(score1, 15 * SCALE), 80 * SCALE) ELSE score1
        conf2 == IF multi /\ conf1 = "low" THEN "medium"
                 ELSE IF multi /\ conf1 = "medium" THEN "high"
                 ELSE conf1
    IN [vuln EXCEPT !.confidence = conf2, !.confidenceScore = score2]

adjustConfidence(vuln) ==
    LET boost1 == vuln.severity = "critical" /\ NumLt(vuln.confidenceScore, 80 * SCALE)
        boost2 == ~boost1 /\ vuln.severity = "high" /\ NumLt(vuln.confidenceScore, 70 * SCALE)
        score1 == IF boost1 THEN NumMin(NumAdd(vuln.confidenceScore, 20 * SCALE), 100 * SCALE)
                  ELSE IF boost2 THEN NumMin(NumAdd(vuln.confidenceScore, 10 * SCALE), 100 * SCALE)
                  ELSE vuln.confidenceScore
        conf1 == IF boost1 THEN "high"
                 ELSE IF boost2 /\ vuln.confidence = "low" THEN "medium"
                 ELSE vuln.confidence
        multi == Cardinality(vuln.tools) >= 2
        score2 == IF multi THEN NumMin(NumAdd(score1, 15 * SCALE), 100 * SCALE) ELSE score1
        conf2 == IF multi /\ conf1 = "low" THEN "medium"
                 ELSE IF multi /\ conf1 = "medium" THEN "high"
                 ELSE conf1
    IN [vuln EXCEPT !.confidence = conf2, !.confidenceScore = score2]

reduceFalsePositives(vulns) ==
    LET kept == SelectSeq(vulns, LAMBDA v : ~isLikelyFalsePositive(v))
    IN [i \in 1..Len(kept) |-> adjustConfidence(kept[i])]

-----------------------------------------------------------------------------
(* Inputs of the engine *)

ToolNames == {"slither", "mythril", "ai", "custom"}

Finding(id, title, severity, description, file, confidence, score) ==
    [id |-> id, title |-> title, severity |-> severity, description |-> description,
     file |-> file, lineStart |-> 10, confidence |-> confidence,
     confidenceScore |-> score, tools |-> {}]

\* raw findings the analyzers report
RawFindings ==
    { Finding("A", "Reentrancy", "critical", "Reentrancy in withdraw", "Bank.sol", "low", 0),
      Finding("B", "External call", "critical", "State change after call", "Bank.sol", "medium", 50 * SCALE),
      Finding("C", "Timestamp", "low", "Block timestamp dependence", "Bank.sol", "low", 0) }

\* a raw finding that lacks its location
MalformedFinding ==
    [id |-> "M", title |-> "Reentrancy", severity |-> "critical", description |-> "Reentrancy in withdraw",
     confidence |-> "low", confidenceScore |-> 0, tools |-> {}]

ListsUpTo(S, n) == UNION {[1..k -> S] : k \in 0..n}

\* the orders in which distinct sources can appear in the input
ToolOrders ==
    {s \in ListsUpTo(ToolNames, Cardinality(ToolNames)) :
        \A i, j \in 1..Len(s) : i # j => s[i] # s[j]}

\* ToolResult[]: source order[k] reports the findings flat[cuts[k-1]+1 .. cuts[k]],
\* where cuts[0] is 0 and the last source takes the rest
BuildResults(order, flat, cuts) ==
    [k \in 1..Len(order) |->
        [tool |-> order[k],
         vulnerabilities |->
            SubSeq(flat,
                   (IF k = 1 THEN 0 ELSE cuts[k - 1]) + 1,
                   IF k = Len(order) THEN Len(flat) ELSE cuts[k])]]

NoStats == [total |-> 0, agreed |-> 0, conflicts |-> 0, overrides |-> 0]

\* consensus findings a caller may hand to reduceFalsePositives directly
Scores == {50 * SCALE, 75 * SCALE, 90 * SCALE}

ListFindings ==
    { [id |-> "V", title |-> "Reentrancy", severity |-> sev, description |-> "Reentrant call",
       file |-> "Bank.sol", lineStart |-> 10, confidence |-> conf, confidenceScore |-> score,
       tools |-> tools] :
        sev \in DOMAIN severityMap, conf \in {"high", "medium", "low"}, score \in Scores,
        tools \in {{"slither"}, {"slither", "mythril"}} }
    \cup
    { Finding("T", "Reentrancy", "high", "Reentrancy in withdraw", "test/Bank.t.sol", "high", 90 * SCALE),
      Finding("S", "Layout", "medium", "Uninitialized storage slot", "Bank.sol", "medium", 50 * SCALE),
      Finding("N", "Timestamp", "medium", "Block timestamp dependence", "Bank.sol", "low", 50 * SCALE) }

-----------------------------------------------------------------------------
(* MultiChainWorkspaceManager *)

\* DEFAULT_CONFIG.supportedChains
supportedChains == <<"ethereum", "bnb", "polygon", "arbitrum", "optimism", "avalanche">>

SupportedSet == {supportedChains[i] : i \in 1..Len(supportedChains)}

\* a JavaScript object used as a map: a function whose domain is the set of its keys
EmptyMap == <<>>
HasKey(map, key) == key \in DOMAIN map
Put(map, key, value) == [k \in DOMAIN map \cup {key} |-> IF k = key THEN value ELSE map[k]]
Remove(map, key) == [k \in DOMAIN map \ {key} |-> map[k]]

\* `new Date()`: a Date object holding the clock's reading
NewDate == [date |-> now]

\* Date.prototype.toJSON: JSON.stringify writes a Date as its ISO string, and
\* JSON.parse reads that back as a string, not as a Date
toJSON(value) == IF "date" \in DOMAIN value THEN [iso |-> value.date] ELSE value

\* JSON.parse(JSON.stringify(workspace, null, 2)): the document as it is read back
JSONStringify(workspace) ==
    [workspace EXCEPT
        !.createdAt = toJSON(@),
        !.updatedAt = toJSON(@),
        !.contracts = [a \in DOMAIN @ |-> [c \in DOMAIN @[a] |-> [@[a][c] EXCEPT !.addedAt = toJSON(@)]]]]

\* { ...base, ...data }
Spread(base, data) ==
    [k \in DOMAIN base \cup DOMAIN data |-> IF k \in DOMAIN data THEN data[k] ELSE base[k]]

\* createWorkspace giving buckets to the requested chains only, as its mkdir loop does
NewWorkspaceRequestedOnly(workspaceId, chains) ==
    [workspaceId |-> workspaceId,
     chains |-> [c \in (IF Len(chains) > 0 THEN {chains[i] : i \in 1..Len(chains)}
                        ELSE {supportedChains[i] : i \in 1..Len(supportedChains)}) |->
                    [contracts |-> <<>>, vulnerabilities |-> <<>>, reports |-> <<>>]],
     contracts |-> <<>>,
     vulnerabilities |-> <<>>,
     reports |-> <<>>,
     createdAt |-> NewDate,
     updatedAt |-> NewDate]

\* the object createWorkspace builds: a bucket for every supported chain; the
\* requested chains only decide which subdirectories are made
NewWorkspace(workspaceId, chains) ==
    [workspaceId |-> workspaceId,
     chains |-> [c \in SupportedSet |->
                    [contracts |-> <<>>, vulnerabilities |-> <<>>, reports |-> <<>>]],
     contracts |-> EmptyMap,
     vulnerabilities |-> EmptyMap,
     reports |-> EmptyMap,
     createdAt |-> NewDate,
     updatedAt |-> NewDate]

\* `${contractAddress}:${chain}`
PairKey(contractAddress, chain) == contractAddress \o ":" \o chain

\* String.prototype.replace(pattern, ''): removes the first occurrence of the pattern
RemoveFirst(s, p) ==
    IF ~Includes(s, p) THEN s
    ELSE LET i == CHOOSE i \in 1..(Len(s) - Len(p) + 1) :
                     /\ SubSeq(s, i, i + Len(p) - 1) = p
                     /\ \A j \in 1..(i - 1) : SubSeq(s, j, j + Len(p) - 1) # p
         IN SubSeq(s, 1, i - 1) \o SubSeq(s, i + Len(p), Len(s))

\* path.join(workspaceDir, workspaceId, chain, `${address.replace('0x', '')}-report.md`)
ReportPath(workspaceId, contractAddress, chain) ==
    workspaceId \o "/" \o chain \o "/" \o RemoveFirst(contractAddress, "0x") \o "-report.md"

\* what `files` holds at the path of a directory
Directory == "<directory>"

\* fs.promises.mkdir(path, { recursive: true }) for each path of the list
RECURSIVE MkDirs(_, _)
MkDirs(fs, paths) ==
    IF paths = <<>> THEN fs
    ELSE MkDirs(IF Head(paths) \in DOMAIN fs THEN fs ELSE [p \in DOMAIN fs \cup {Head(paths)} |->
                                                             IF p = Head(paths) THEN Directory ELSE fs[p]],
                Tail(paths))

\* path.join(workspaceDir, workspaceId) and path.join(workspacePath, chain)
WorkspacePath(workspaceId) == workspaceId
ChainPath(workspaceId, chain) == workspaceId \o "/" \o chain

\* the directories createWorkspace makes: the workspace's and one per requested
\* chain, or one per supported chain when none is requested
CreatedDirs(workspaceId, chains) ==
    LET made == IF Len(chains) > 0 THEN chains ELSE supportedChains
    IN <<WorkspacePath(workspaceId)>> \o [i \in 1..Len(made) |-> ChainPath(workspaceId, made[i])]

\* fs.existsSync(path.join(workspaceDir, workspaceId)): the directory of the workspace
DirExists(workspaceId) == WorkspacePath(workspaceId) \in DOMAIN files

\* the constructor's loadWorkspaces: every workspace.json found under workspaceDir
loadWorkspaces(documents) == [id \in DOMAIN documents |-> documents[id]]

\* loadWorkspace that makes a workspace up when it finds none
loadWorkspaceOrCreate(m, workspaceId) ==
    IF workspaceId \in DOMAIN workspaces[m] THEN <<workspaces[m][workspaceId]>>
    ELSE IF workspaceId \in DOMAIN disk THEN <<disk[workspaceId]>>
    ELSE <<NewWorkspace(workspaceId, <<>>)>>

\* loadWorkspace that reads the document again whenever there is one
loadWorkspaceFromDisk(m, workspaceId) ==
    IF workspaceId \in DOMAIN disk THEN <<disk[workspaceId]>>
    ELSE IF workspaceId \in DOMAIN workspaces[m] THEN <<workspaces[m][workspaceId]>>
    ELSE <<>>

\* loadWorkspace: the in-memory workspace, else the document on disk, else null (<<>>)
loadWorkspace(m, workspaceId) ==
    IF workspaceId \in DOMAIN workspaces[m] THEN <<workspaces[m][workspaceId]>>
    ELSE IF workspaceId \in DOMAIN disk THEN <<disk[workspaceId]>>
    ELSE <<>>

\* a saveWorkspace whose document leaves the reports map out
SavedDocumentWithoutReports(workspace) == [JSONStringify(workspace) EXCEPT !.reports = <<>>]

\* saveWorkspace writes the document as it is, then stamps updatedAt on the object
SavedDocument(workspace) == JSONStringify(workspace)
SavedObject(workspace) == [workspace EXCEPT !.updatedAt = NewDate]

\* addContract that skips an address the chain already tracks
WithContractOnce(workspace, contractAddress, chain, contractData) ==
    LET perChain == IF HasKey(workspace.contracts, contractAddress)
                    THEN workspace.contracts[contractAddress] ELSE EmptyMap
        record == Spread([address |-> contractAddress, chain |-> chain, addedAt |-> NewDate], contractData)
        w1 == [workspace EXCEPT !.contracts = Put(@, contractAddress, Put(perChain, chain, record))]
    IN IF HasKey(w1.chains, chain)
          /\ \A i \in 1..Len(w1.chains[chain].contracts) : w1.chains[chain].contracts[i] # contractAddress
       THEN [w1 EXCEPT !.chains[chain].contracts = Append(@, contractAddress)]
       ELSE w1

\* addContract that replaces the records the address has on other chains
WithContractReplacingMap(workspace, contractAddress, chain, contractData) ==
    LET record == Spread([address |-> contractAddress, chain |-> chain, addedAt |-> NewDate], contractData)
        w1 == [workspace EXCEPT !.contracts = Put(@, contractAddress, Put(EmptyMap, chain, record))]
    IN IF HasKey(w1.chains, chain)
       THEN [w1 EXCEPT !.chains[chain].contracts = Append(@, contractAddress)]
       ELSE w1

\* the body of addContract after the workspace was found
WithContract(workspace, contractAddress, chain, contractData) ==
    LET perChain == IF HasKey(workspace.contracts, contractAddress)
                    THEN workspace.contracts[contractAddress] ELSE EmptyMap
        record == Spread([address |-> contractAddress, chain |-> chain, addedAt |-> NewDate], contractData)
        w1 == [workspace EXCEPT !.contracts = Put(@, contractAddress, Put(perChain, chain, record))]
    IN IF HasKey(w1.chains, chain)
       THEN [w1 EXCEPT !.chains[chain].contracts = Append(@, contractAddress)]
       ELSE w1

\* addVulnerabilities that appends to the per-contract list too
WithVulnerabilitiesAppended(workspace, contractAddress, chain, vulnerabilities) ==
    LET key == PairKey(contractAddress, chain)
        old == IF HasKey(workspace.vulnerabilities, key) THEN workspace.vulnerabilities[key] ELSE <<>>
        w1 == [workspace EXCEPT !.vulnerabilities = Put(@, key, old \o vulnerabilities)]
    IN IF HasKey(w1.chains, chain)
       THEN [w1 EXCEPT !.chains[chain].vulnerabilities = @ \o vulnerabilities]
       ELSE w1

\* addVulnerabilities that keeps one chain-level copy of each vulnerability
WithVulnerabilitiesDeduplicated(workspace, contractAddress, chain, vulnerabilities) ==
    LET key == PairKey(contractAddress, chain)
        w1 == [workspace EXCEPT !.vulnerabilities = Put(@, key, vulnerabilities)]
    IN IF HasKey(w1.chains, chain)
       THEN [w1 EXCEPT !.chains[chain].vulnerabilities =
                @ \o SelectSeq(vulnerabilities, LAMBDA v : \A i \in 1..Len(@) : @[i] # v)]
       ELSE w1

\* the body of addVulnerabilities after the workspace was found
WithVulnerabilities(workspace, contractAddress, chain, vulnerabilities) ==
    LET key == PairKey(contractAddress, chain)
        w1 == [workspace EXCEPT !.vulnerabilities = Put(@, key, vulnerabilities)]
    IN IF HasKey(w1.chains, chain)
       THEN [w1 EXCEPT !.chains[chain].vulnerabilities = @ \o vulnerabilities]
       ELSE w1

\* the body of addReport after the workspace was found
WithReport(workspace, contractAddress, chain, report) ==
    LET key == PairKey(contractAddress, chain)
        w1 == [workspace EXCEPT !.reports = Put(@, key, report)]
    IN IF HasKey(w1.chains, chain)
       THEN [w1 EXCEPT !.chains[chain].reports = Append(@, key)]
       ELSE w1

RECURSIVE SumLengths(_, _)
SumLengths(map, keys) ==
    IF keys = {} THEN 0
    ELSE LET k == CHOOSE k \in keys : TRUE IN Len(map[k]) + SumLengths(map, keys \ {k})

\* listWorkspaces: the keys of this.workspaces
listWorkspaces(m) == DOMAIN workspaces[m]

\* getWorkspaceStats: null (<<>>) when the id is not in this.workspaces
getWorkspaceStats(m, workspaceId) ==
    IF workspaceId \notin DOMAIN workspaces[m] THEN <<>>
    ELSE LET workspace == workspaces[m][workspaceId] IN
         << [workspaceId |-> workspaceId,
             chains |-> Cardinality(DOMAIN workspace.chains),
             contracts |-> Cardinality(DOMAIN workspace.contracts),
             vulnerabilities |-> SumLengths(workspace.vulnerabilities, DOMAIN workspace.vulnerabilities),
             reports |-> Cardinality(DOMAIN workspace.reports),
             createdAt |-> workspace.createdAt,
             updatedAt |-> workspace.updatedAt] >>

-----------------------------------------------------------------------------
(* Inputs of the store *)

\* at most this many calls are made on the store
MaxCalls == 3

Managers == {"m1", "m2"}
WorkspaceIds == {"w1"}
\* (address, chain) pairs the callers use: an address is any string, with the
\* "0x" prefix or without it; "solana" is not a supported chain
CallPairs == {<<"0xAA", "ethereum">>, <<"AA", "ethereum">>, <<"0xAA", "bnb">>, <<"0xAA", "solana">>}
ContractData == {[name |-> "Bank"], [name |-> "Vault", verified |-> TRUE]}
VulnLists == {<<"v1", "v2">>, <<"v3">>, <<>>}
Reports == {"# Audit", "# Audit v2"}
ChainLists == {<<>>, <<"ethereum", "bnb">>}

\* the record of one call and of what it returned or threw
Call(m, op, workspaceId, pair, arg, outcome) ==
    [manager |-> m, op |-> op, workspaceId |-> workspaceId, address |-> pair[1], chain |-> pair[2],
     arg |-> arg, outcome |-> outcome]

NoPair == <<"", "">>

StoreIdle ==
    /\ workspaces = [m \in Managers |-> EmptyMap]
    /\ disk = EmptyMap
    /\ files = EmptyMap
    /\ now = 0
    /\ calls = <<>>

EngineIdle ==
    /\ pc = "idle"
    /\ results = <<>>
    /\ processed = <<>>
    /\ consensus = NoStats
    /\ before = <<>>
    /\ passes = 0

-----------------------------------------------------------------------------
(* RPCManager *)

\* the providers a deployment can configure; two of them have the same priority
ProviderPool ==
    << [name |-> "alchemy", url |-> "https://alchemy", priority |-> 1],
       [name |-> "infura", url |-> "https://infura", priority |-> 2],
       [name |-> "quicknode", url |-> "https://quicknode", priority |-> 2] >>

\* the lists the constructor is given: distinct providers in any order
ProviderLists ==
    {l \in ListsUpTo({ProviderPool[i] : i \in 1..Len(ProviderPool)}, MaxProviders) :
        \A i, j \in 1..Len(l) : i # j => l[i] # l[j]}

\* Array.prototype.sort((a, b) => a.priority - b.priority): a stable sort
RECURSIVE SortByPriority(_)
SortByPriority(list) ==
    IF list = <<>> THEN <<>>
    ELSE LET i == CHOOSE i \in 1..Len(list) :
                     /\ \A j \in 1..Len(list) : list[i].priority <= list[j].priority
                     /\ \A j \in 1..(i - 1) : list[j].priority # list[i].priority
         IN <<list[i]>> \o SortByPriority(SubSeq(list, 1, i - 1) \o SubSeq(list, i + 1, Len(list)))

UpperCaseLetters == "ABCDEFGHIJKLMNOPQRSTUVWXYZ"
LowerCaseLetters == "abcdefghijklmnopqrstuvwxyz"

\* the lower-case letter of every upper-case letter
LowerCaseOf ==
    [ch \in {SubSeq(UpperCaseLetters, i, i) : i \in 1..Len(UpperCaseLetters)} |->
        LET i == CHOOSE i \in 1..Len(UpperCaseLetters) : SubSeq(UpperCaseLetters, i, i) = ch
        IN SubSeq(LowerCaseLetters, i, i)]

LowerChar(ch) == IF ch \in DOMAIN LowerCaseOf THEN LowerCaseOf[ch] ELSE ch

\* String.prototype.toLowerCase
RECURSIVE toLowerCase(_)
toLowerCase(s) ==
    IF s = "" THEN "" ELSE LowerChar(SubSeq(s, 1, 1)) \o toLowerCase(SubSeq(s, 2, Len(s)))

retryableCodes == {"ECONNABORTED", "ETIMEDOUT", "ECONNRESET", "ECONNREFUSED"}
retryableMessages == {"network timeout", "timeout", "rate limit exceeded"}

\* isRetryableError; an error without code has the code ""
isRetryableError(error) ==
    \/ error.code \in retryableCodes
    \/ \E msg \in retryableMessages : Includes(toLowerCase(error.message), msg)

\* rotateProvider that does not wrap around
rotateProviderUnwrapped(index) == index + 1

\* rotateProvider: the index it assigns; `% 0` is NaN
rotateProvider(index) ==
    IF Len(providers) = 0 THEN NaN ELSE (index + 1) % Len(providers)

NoError == [code |-> "", message |-> ""]

\* what axios.post rejects with
AxiosErrors ==
    { [code |-> "ECONNREFUSED", message |-> "connect ECONNREFUSED"],
      [code |-> "ERR_BAD_REQUEST", message |-> "Rate Limit Exceeded"],
      [code |-> "ERR_BAD_RESPONSE", message |-> "Bad Gateway"] }

\* `provider.url` on a provider that is undefined
TypeErrorOfUndefined ==
    [code |-> "", message |-> "Cannot read properties of undefined"]

\* `throw new Error(...)` after the loop
AllProvidersFailed == [code |-> "", message |-> "All RPC providers failed"]

\* the call has thrown: its locals are gone
Thrown(frame, error) ==
    [frame EXCEPT !.pc = "thrown", !.error = error, !.attempt = 0, !.url = ""]

\* the loop of `call` from the top of an iteration to the next await or throw:
\* the frame of the call and the index the manager is left with.  `sent` counts
\* the requests handed to axios.post, `url` is where the one in flight went.
RECURSIVE Iteration(_, _)
RECURSIVE Catch(_, _, _)
Iteration(frame, index) ==
    IF ~(frame.attempt < frame.retries)
    THEN [frame |-> Thrown(frame, AllProvidersFailed), index |-> index]
    ELSE IF index \in 0..(Len(providers) - 1)
    THEN [frame |-> [frame EXCEPT !.pc = "awaiting", !.sent = @ + 1, !.url = providers[index + 1].url],
          index |-> index]
    ELSE Catch(frame, index, TypeErrorOfUndefined)

\* the catch block
Catch(frame, index, error) ==
    IF isRetryableError(error) /\ frame.attempt < frame.retries - 1
    THEN Iteration([frame EXCEPT !.attempt = @ + 1, !.error = error], rotateProvider(index))
    ELSE [frame |-> Thrown(frame, error), index |-> index]

Callers == {"c1", "c2"}

IdleFrame ==
    [pc |-> "idle", made |-> 0, attempt |-> 0, retries |-> 0, sent |-> 0, url |-> "", error |-> NoError]

\* the calls made so far by the callers in S
RECURSIVE CallsMade(_)
CallsMade(S) ==
    IF S = {} THEN 0 ELSE LET c == CHOOSE c \in S : TRUE IN rpc[c].made + CallsMade(S \ {c})

\* no RPC manager is constructed and nobody calls one
RpcIdle ==
    /\ providers = <<>>
    /\ currentIndex = 0
    /\ rpc = <<>>

-----------------------------------------------------------------------------
(* The caller of the engine *)

\* every ToolResult[] with one entry per source name and at most MaxFindings findings
InitEngine ==
    /\ pc = "input"
    /\ \E order \in ToolOrders, flat \in ListsUpTo(RawFindings, MaxFindings) :
          \E cuts \in [1..(Len(order) - 1) -> 0..Len(flat)] :
             /\ Len(order) = 0 => Len(flat) = 0
             /\ \A i, j \in 1..(Len(order) - 1) : i < j => cuts[i] <= cuts[j]
             /\ results = BuildResults(order, flat, cuts)
    /\ processed = <<>>
    /\ consensus = NoStats
    /\ before = <<>>
    /\ passes = 0
    /\ StoreIdle
    /\ RpcIdle

\* every list of at most MaxListLen consensus findings
InitReduce ==
    /\ pc = "list"
    /\ results = <<>>
    /\ processed \in ListsUpTo(ListFindings, MaxListLen)
    /\ consensus = NoStats
    /\ before = <<>>
    /\ passes = 0
    /\ StoreIdle
    /\ RpcIdle

\* an input of at most two sources in which some finding is malformed
InitMalformed ==
    /\ pc = "input"
    /\ \E order \in {o \in ToolOrders : Len(o) \in 1..2},
          flat \in ListsUpTo(RawFindings \cup {MalformedFinding}, MaxFindings) :
          \E cuts \in [1..(Len(order) - 1) -> 0..Len(flat)] :
             /\ \E i \in 1..Len(flat) : flat[i] = MalformedFinding
             /\ results = BuildResults(order, flat, cuts)
    /\ processed = <<>>
    /\ consensus = NoStats
    /\ before = <<>>
    /\ passes = 0
    /\ StoreIdle
    /\ RpcIdle

CombineResults ==
    /\ pc = "input"
    /\ IF ThrowsTypeError(results)
       THEN /\ pc' = "TypeError"
            /\ UNCHANGED <<processed, consensus>>
       ELSE /\ LET r == combineResults(results) IN
                /\ processed' = r.vulnerabilities
                /\ consensus' = r.consensus
            /\ pc' = "combined"
    /\ UNCHANGED <<results, before, passes>>
    /\ UNCHANGED storeVars
    /\ UNCHANGED rpcVars

\* the pipeline's reduceFalsePositives call on the output of combineResults
ReduceCombined ==
    /\ pc = "combined"
    /\ before' = processed
    /\ processed' = reduceFalsePositives(processed)
    /\ passes' = passes + 1
    /\ pc' = "filtered"
    /\ UNCHANGED <<results, consensus>>
    /\ UNCHANGED storeVars
    /\ UNCHANGED rpcVars

\* reduceFalsePositives applied to a list the caller holds, and to its own output
ReduceFalsePositives ==
    /\ pc \in {"list", "reduced"}
    /\ passes < MaxPasses
    /\ before' = processed
    /\ processed' = reduceFalsePositives(processed)
    /\ passes' = passes + 1
    /\ pc' = "reduced"
    /\ UNCHANGED <<results, consensus>>
    /\ UNCHANGED storeVars
    /\ UNCHANGED rpcVars

NextEngine == CombineResults \/ ReduceCombined

SpecEngine == InitEngine /\ [][NextEngine]_vars

NextMalformed == CombineResults

SpecMalformed == InitMalformed /\ [][NextMalformed]_vars

NextReduce == ReduceFalsePositives

SpecReduce == InitReduce /\ [][NextReduce]_vars

-----------------------------------------------------------------------------
(* The callers of the store *)

\* how the file system answers the writes of one call
IOOutcomes == {"ok", "saveFails", "reportFails"}

Record(call) ==
    /\ calls' = Append(calls, call)
    /\ now' = now + 1

\* a mutating call finds no workspace: `throw new Error('Workspace not found: ...')`
ThrowNotFound(m, op, workspaceId, pair, arg) ==
    /\ Record(Call(m, op, workspaceId, pair, arg, "NotFound"))
    /\ UNCHANGED <<workspaces, disk>>

\* a mutating call ends with saveWorkspace(workspaceId, workspace)
SaveWorkspace(m, op, workspaceId, pair, arg, workspace) ==
    /\ disk' = Put(disk, workspaceId, SavedDocument(workspace))
    /\ workspaces' = [workspaces EXCEPT ![m] = Put(@, workspaceId, SavedObject(workspace))]
    /\ Record(Call(m, op, workspaceId, pair, arg, "ok"))

\* writeFile rejects inside saveWorkspace: the call throws with the document as it
\* was, while the object loadWorkspace returned, which this.workspaces holds, has
\* been changed in place already
SaveFails(m, op, workspaceId, pair, arg, workspace) ==
    /\ disk' = disk
    /\ workspaces' = [workspaces EXCEPT ![m] = Put(@, workspaceId, workspace)]
    /\ Record(Call(m, op, workspaceId, pair, arg, "PersistenceError"))

CreateWorkspace(m, workspaceId, chains, io) ==
    /\ now < MaxCalls
    \* no check that the id exists already; saveWorkspace and then createWorkspace
    \* itself put the same object into this.workspaces
    /\ IF io = "saveFails"
       THEN /\ Record(Call(m, "createWorkspace", workspaceId, NoPair, chains, "PersistenceError"))
            /\ UNCHANGED <<workspaces, disk>>
       ELSE SaveWorkspace(m, "createWorkspace", workspaceId, NoPair, chains, NewWorkspace(workspaceId, chains))
    /\ files' = MkDirs(files, CreatedDirs(workspaceId, chains))
    /\ UNCHANGED engineVars
    /\ UNCHANGED rpcVars

AddContract(m, workspaceId, pair, contractData, io) ==
    /\ now < MaxCalls
    /\ LET found == loadWorkspace(m, workspaceId) IN
       IF found = <<>>
       THEN /\ ThrowNotFound(m, "addContract", workspaceId, pair, contractData)
            /\ UNCHANGED files
       ELSE IF io = "saveFails"
       THEN /\ SaveFails(m, "addContract", workspaceId, pair, contractData,
                         WithContract(found[1], pair[1], pair[2], contractData))
            /\ files' = MkDirs(files, <<WorkspacePath(workspaceId)>>)
       ELSE /\ SaveWorkspace(m, "addContract", workspaceId, pair, contractData,
                             WithContract(found[1], pair[1], pair[2], contractData))
            /\ files' = MkDirs(files, <<WorkspacePath(workspaceId)>>)
    /\ UNCHANGED engineVars
    /\ UNCHANGED rpcVars

AddVulnerabilities(m, workspaceId, pair, vulnerabilities, io) ==
    /\ now < MaxCalls
    /\ LET found == loadWorkspace(m, workspaceId) IN
       IF found = <<>>
       THEN /\ ThrowNotFound(m, "addVulnerabilities", workspaceId, pair, vulnerabilities)
            /\ UNCHANGED files
       ELSE IF io = "saveFails"
       THEN /\ SaveFails(m, "addVulnerabilities", workspaceId, pair, vulnerabilities,
                         WithVulnerabilities(found[1], pair[1], pair[2], vulnerabilities))
            /\ files' = MkDirs(files, <<WorkspacePath(workspaceId)>>)
       ELSE /\ SaveWorkspace(m, "addVulnerabilities", workspaceId, pair, vulnerabilities,
                             WithVulnerabilities(found[1], pair[1], pair[2], vulnerabilities))
            /\ files' = MkDirs(files, <<WorkspacePath(workspaceId)>>)
    /\ UNCHANGED engineVars
    /\ UNCHANGED rpcVars

AddReport(m, workspaceId, pair, report, io) ==
    /\ now < MaxCalls
    /\ LET found == loadWorkspace(m, workspaceId) IN
       IF found = <<>>
       THEN /\ ThrowNotFound(m, "addReport", workspaceId, pair, report)
            /\ UNCHANGED files
       ELSE IF io = "saveFails"
       THEN /\ SaveFails(m, "addReport", workspaceId, pair, report,
                         WithReport(found[1], pair[1], pair[2], report))
            /\ files' = MkDirs(files, <<WorkspacePath(workspaceId)>>)
       ELSE IF io = "reportFails"
       \* the document is saved, then writeFile rejects on the report file
       THEN /\ disk' = Put(disk, workspaceId, SavedDocument(WithReport(found[1], pair[1], pair[2], report)))
            /\ workspaces' = [workspaces EXCEPT ![m] =
                                 Put(@, workspaceId, SavedObject(WithReport(found[1], pair[1], pair[2], report)))]
            /\ Record(Call(m, "addReport", workspaceId, pair, report, "PersistenceError"))
            /\ files' = MkDirs(files, <<WorkspacePath(workspaceId), ChainPath(workspaceId, pair[2])>>)
       ELSE /\ SaveWorkspace(m, "addReport", workspaceId, pair, report,
                             WithReport(found[1], pair[1], pair[2], report))
            /\ files' = Put(MkDirs(files, <<WorkspacePath(workspaceId), ChainPath(workspaceId, pair[2])>>),
                            ReportPath(workspaceId, pair[1], pair[2]), report)
    /\ UNCHANGED engineVars
    /\ UNCHANGED rpcVars

\* the public loadWorkspace: a read that caches the document it finds on disk
LoadWorkspace(m, workspaceId) ==
    /\ now < MaxCalls
    /\ LET found == loadWorkspace(m, workspaceId) IN
       /\ workspaces' = IF found = <<>> THEN workspaces
                        ELSE [workspaces EXCEPT ![m] = Put(@, workspaceId, found[1])]
       /\ Record(Call(m, "loadWorkspace", workspaceId, NoPair, <<>>, found))
    /\ UNCHANGED <<disk, files>>
    /\ UNCHANGED engineVars
    /\ UNCHANGED rpcVars

GetWorkspaceStats(m, workspaceId) ==
    /\ now < MaxCalls
    /\ Record(Call(m, "getWorkspaceStats", workspaceId, NoPair, <<>>, getWorkspaceStats(m, workspaceId)))
    /\ UNCHANGED <<workspaces, disk, files>>
    /\ UNCHANGED engineVars
    /\ UNCHANGED rpcVars

\* deleteWorkspace that removes the directory and forgets to drop the workspace
\* from this.workspaces
DeleteWorkspaceKeepingMemory(m, workspaceId) ==
    /\ now < MaxCalls
    /\ IF ~DirExists(workspaceId)
       THEN /\ Record(Call(m, "deleteWorkspace", workspaceId, NoPair, <<>>, "false"))
            /\ UNCHANGED <<workspaces, disk, files>>
       ELSE /\ disk' = Remove(disk, workspaceId)
            /\ files' = [p \in {q \in DOMAIN files :
                                   /\ q # WorkspacePath(workspaceId)
                                   /\ SubSeq(q, 1, Len(workspaceId) + 1) # workspaceId \o "/"} |-> files[p]]
            /\ workspaces' = workspaces
            /\ Record(Call(m, "deleteWorkspace", workspaceId, NoPair, <<>>, "true"))
    /\ UNCHANGED engineVars
    /\ UNCHANGED rpcVars

DeleteWorkspace(m, workspaceId) ==
    /\ now < MaxCalls
    /\ IF ~DirExists(workspaceId)
       THEN /\ Record(Call(m, "deleteWorkspace", workspaceId, NoPair, <<>>, "false"))
            /\ UNCHANGED <<workspaces, disk, files>>
       ELSE /\ disk' = Remove(disk, workspaceId)
            /\ files' = [p \in {q \in DOMAIN files :
                                   /\ q # WorkspacePath(workspaceId)
                                   /\ SubSeq(q, 1, Len(workspaceId) + 1) # workspaceId \o "/"} |-> files[p]]
            /\ workspaces' = [workspaces EXCEPT ![m] = Remove(@, workspaceId)]
            /\ Record(Call(m, "deleteWorkspace", workspaceId, NoPair, <<>>, "true"))
    /\ UNCHANGED engineVars
    /\ UNCHANGED rpcVars

\* the calls a caller of manager m can make while the file system answers from `ios`
StoreNext(m, ios) ==
    \E workspaceId \in WorkspaceIds :
        \/ \E chains \in ChainLists, io \in ios \ {"reportFails"} :
              CreateWorkspace(m, workspaceId, chains, io)
        \/ \E pair \in CallPairs, data \in ContractData, io \in ios \ {"reportFails"} :
              AddContract(m, workspaceId, pair, data, io)
        \/ \E pair \in CallPairs, vulns \in VulnLists, io \in ios \ {"reportFails"} :
              AddVulnerabilities(m, workspaceId, pair, vulns, io)
        \/ \E pair \in CallPairs, report \in Reports, io \in ios :
              AddReport(m, workspaceId, pair, report, io)
        \/ GetWorkspaceStats(m, workspaceId)
        \/ DeleteWorkspace(m, workspaceId)

InitStore == EngineIdle /\ StoreIdle /\ RpcIdle

\* one manager on a file system whose writes succeed
NextStore == StoreNext("m1", {"ok"})

SpecStore == InitStore /\ [][NextStore]_vars

\* A workspace directory that holds a workspace already: an earlier process
\* created it at time 0.  Each of the managers was constructed either before
\* that (and has loaded nothing) or after it (and has loaded the document).
InitExisting(managers) ==
    /\ EngineIdle
    /\ RpcIdle
    /\ now = 1
    /\ calls = <<>>
    /\ disk = [id \in WorkspaceIds |->
                  [JSONStringify(NewWorkspace(id, <<>>)) EXCEPT !.createdAt = [iso |-> 0],
                                                               !.updatedAt = [iso |-> 0]]]
    /\ files = MkDirs(EmptyMap, CreatedDirs("w1", <<>>))
    /\ workspaces \in {w \in [Managers -> {EmptyMap, loadWorkspaces(disk)}] :
                          \A m \in Managers \ managers : w[m] = EmptyMap}

\* one manager on a file system whose writes can fail
InitFaulty == InitExisting({"m1"})

NextFaulty == StoreNext("m1", IOOutcomes)

SpecFaulty == InitFaulty /\ [][NextFaulty]_vars

\* two managers over one workspace directory
InitWriters == InitExisting(Managers)

NextWriters ==
    \E m \in Managers :
        \/ StoreNext(m, {"ok"})
        \/ \E workspaceId \in WorkspaceIds : LoadWorkspace(m, workspaceId)

SpecWriters == InitWriters /\ [][NextWriters]_vars

-----------------------------------------------------------------------------
(* The callers of the RPC manager *)

\* new RPCManager(list)
InitRPC ==
    /\ EngineIdle
    /\ StoreIdle
    /\ \E list \in ProviderLists : providers = SortByPriority(list)
    /\ currentIndex = 0
    /\ rpc = [c \in Callers |-> IdleFrame]

\* caller c calls call(method, params, retries): the call runs to its first await
RpcCall(c, retries) ==
    /\ rpc[c].pc # "awaiting"
    /\ CallsMade(Callers) < MaxRpcCalls
    /\ LET next == Iteration([IdleFrame EXCEPT !.made = rpc[c].made + 1, !.retries = retries],
                             currentIndex)
       IN /\ rpc' = [rpc EXCEPT ![c] = next.frame]
          /\ currentIndex' = next.index
    /\ UNCHANGED providers
    /\ UNCHANGED <<engineVars, storeVars>>

\* the request of caller c is answered with a result
AxiosPostResolves(c) ==
    /\ rpc[c].pc = "awaiting"
    /\ rpc' = [rpc EXCEPT ![c].pc = "returned", ![c].error = NoError, ![c].attempt = 0, ![c].url = ""]
    /\ UNCHANGED <<providers, currentIndex>>
    /\ UNCHANGED <<engineVars, storeVars>>

\* the request of caller c fails: the catch block runs, and the loop goes on to
\* its next await or throws
AxiosPostRejects(c, error) ==
    /\ rpc[c].pc = "awaiting"
    /\ LET next == Catch(rpc[c], currentIndex, error)
       IN /\ rpc' = [rpc EXCEPT ![c] = next.frame]
          /\ currentIndex' = next.index
    /\ UNCHANGED providers
    /\ UNCHANGED <<engineVars, storeVars>>

NextRPC ==
    \E c \in Callers :
        \/ \E retries \in 0..MaxRetries : RpcCall(c, retries)
        \/ AxiosPostResolves(c)
        \/ \E error \in AxiosErrors : AxiosPostRejects(c, error)

SpecRPC == InitRPC /\ [][NextRPC]_vars

-----------------------------------------------------------------------------
(* Claims about the consensus engine *)

\* the positions of the sources that report something
Reporting(rs) == {i \in 1..Len(rs) : rs[i].vulnerabilities # <<>>}

\* the distinct source names that report a finding with this key
SourcesAt(rs, key) ==
    {rs[i].tool : i \in {i \in 1..Len(rs) :
        \E j \in 1..Len(rs[i].vulnerabilities) : GroupKey(rs[i].vulnerabilities[j]) = key}}

\* the number of findings reported with this key, all sources together
RECURSIVE CountAt(_, _)
CountAt(rs, key) ==
    IF rs = <<>> THEN 0
    ELSE Len(SelectSeq(Head(rs).vulnerabilities, LAMBDA v : GroupKey(v) = key)) + CountAt(Tail(rs), key)

\* the weight of a source as the ToolWeight table gives it, 0 for a source not in the table
TableWeight(tool) == IF tool \in DOMAIN toolWeights THEN toolWeights[tool] ELSE 0

\* two sources report one finding each, at the same key, and every other source is empty
TwoSourcesOneKey ==
    /\ Cardinality(Reporting(results)) = 2
    /\ \A i \in Reporting(results) : Len(results[i].vulnerabilities) = 1
    /\ \A i, j \in Reporting(results) :
          /\ GroupKey(results[i].vulnerabilities[1]) = GroupKey(results[j].vulnerabilities[1])
          /\ i # j => results[i].tool # results[j].tool

\* C1: two distinct sources each reporting one finding at the same key, all other
\* sources empty: combineResults returns one finding whose tools are the two sources,
\* with confidence medium, confidenceScore the sum of the two weights, and total = 1.
C1_TwoSourcesAgree ==
    (pc = "combined" /\ TwoSourcesOneKey) =>
        LET both == {results[i].tool : i \in Reporting(results)} IN
        /\ Len(processed) = 1
        /\ processed[1].tools = both
        /\ processed[1].confidence = "medium"
        /\ \E s, t \in both : s # t /\ processed[1].confidenceScore = TableWeight(s) + TableWeight(t)
        /\ consensus.total = 1

\* C2: whenever three or more distinct sources report the same key, the finding
\* returned for that key has confidence high.
C2_ThreeSourcesHigh ==
    pc = "combined" =>
        \A k \in 1..Len(processed) :
            Cardinality(SourcesAt(results, GroupKey(processed[k]))) >= 3
                => processed[k].confidence = "high"

\* C3: a key reported by exactly one source with one finding is returned with
\* confidence low, tools = {that source} and confidenceScore = weight(source) * 50,
\* the weight being 0 for a source that is not in the table.
C3_SingletonLowScore ==
    pc = "combined" =>
        \A k \in 1..Len(processed) :
            LET key == GroupKey(processed[k]) IN
            (Cardinality(SourcesAt(results, key)) = 1 /\ CountAt(results, key) = 1) =>
                \E source \in SourcesAt(results, key) :
                    /\ processed[k].confidence = "low"
                    /\ processed[k].tools = {source}
                    /\ processed[k].confidenceScore = TableWeight(source) * 50

\* C4 as stated: a second reduceFalsePositives returns the list of the first,
\* confidence and confidenceScore included.
C4_SecondPassSameList == passes = 2 => processed = before

\* a finding without the two fields adjustConfidence writes
WithoutConfidence(vuln) == [k \in DOMAIN vuln \ {"confidence", "confidenceScore"} |-> vuln[k]]

\* C4 as amended: a second reduceFalsePositives keeps the findings of the first, in
\* the same order and with every field but confidence and confidenceScore unchanged.
C4_SecondPassKeepsFindings ==
    passes = 2 =>
        /\ Len(processed) = Len(before)
        /\ \A i \in 1..Len(processed) : WithoutConfidence(processed[i]) = WithoutConfidence(before[i])

\* a second pass that kept two findings and boosted a score again
C4_Witness ==
    /\ passes = 2
    /\ Len(processed) = 2
    /\ \E i \in 1..2 : processed[i].confidenceScore # before[i].confidenceScore

\* the four drop conditions
LowSeverityLowTier(vuln) == vuln.severity = "low" /\ vuln.confidence = "low"
MarksTestCode(vuln) == Includes(vuln.file, ".t.sol") \/ Includes(vuln.file, "test")
GenericNoise(vuln) == Includes(vuln.description, "variable") \/ Includes(vuln.description, "storage slot")
LowTierOneSource(vuln) == vuln.confidence = "low" /\ Cardinality(vuln.tools) = 1

NoDropCondition(vuln) ==
    ~LowSeverityLowTier(vuln) /\ ~MarksTestCode(vuln) /\ ~GenericNoise(vuln) /\ ~LowTierOneSource(vuln)

Min(a, b) == IF a < b THEN a ELSE b

\* the boosts adjustConfidence is to apply, in the words of the rules
SeverityBoosted(vuln) ==
    IF vuln.severity = "critical" /\ vuln.confidenceScore < 80 * SCALE
    THEN [vuln EXCEPT !.confidenceScore = Min(@ + 20 * SCALE, 100 * SCALE), !.confidence = "high"]
    ELSE IF vuln.severity = "high" /\ vuln.confidenceScore < 70 * SCALE
    THEN [vuln EXCEPT !.confidenceScore = Min(@ + 10 * SCALE, 100 * SCALE),
                      !.confidence = IF @ = "low" THEN "medium" ELSE @]
    ELSE vuln

AgreementBoosted(vuln) ==
    IF Cardinality(vuln.tools) >= 2
    THEN [vuln EXCEPT !.confidenceScore = Min(@ + 15 * SCALE, 100 * SCALE),
                      !.confidence = IF @ = "low" THEN "medium" ELSE IF @ = "medium" THEN "high" ELSE @]
    ELSE vuln

\* C18: every finding reduceFalsePositives keeps comes out of adjustConfidence
\* with the severity boost and then the agreement boost applied once each, scores
\* capped at 100, and with every other field as it was.
C18_BoostsInOrder ==
    passes >= 1 =>
        LET kept == SelectSeq(before, LAMBDA v : ~isLikelyFalsePositive(v)) IN
        /\ Len(processed) = Len(kept)
        /\ \A i \in 1..Len(kept) : processed[i] = AgreementBoosted(SeverityBoosted(kept[i]))

\* critical, score 75, tier medium, two sources: 95 and high after the severity
\* boost, then 100 by the cap
C18_Witness ==
    /\ passes = 1
    /\ Len(before) = 1
    /\ before[1].severity = "critical" /\ before[1].confidenceScore = 75 * SCALE
    /\ before[1].confidence = "medium" /\ Cardinality(before[1].tools) = 2
    /\ Len(processed) = 1
    /\ processed[1].confidenceScore = 100 * SCALE /\ processed[1].confidence = "high"

\* the input without the sources that report nothing
WithoutEmptySources(rs) == SelectSeq(rs, LAMBDA r : r.vulnerabilities # <<>>)

\* C13: combineResults returns, and returns the findings and the counters it
\* returns for the same input without the sources whose list is empty.
C13_EmptySourcesIgnored ==
    /\ pc # "TypeError"
    /\ (pc = "combined" /\ Reporting(results) # 1..Len(results)) =>
          LET r == combineResults(WithoutEmptySources(results)) IN
          /\ processed = r.vulnerabilities
          /\ consensus = r.consensus

\* an empty source stands between two sources that report
C13_Witness ==
    /\ pc = "combined"
    /\ Len(results) = 3
    /\ Reporting(results) = {1, 3}
    /\ Len(processed) = 2
    /\ consensus.total = 2

\* the input without the findings that lack a location
WithoutMalformed(rs) ==
    [i \in 1..Len(rs) |->
        [rs[i] EXCEPT !.vulnerabilities = SelectSeq(@, LAMBDA v : "file" \in DOMAIN v)]]

\* C14: combineResults does not raise on a finding that lacks its location, and
\* returns what it returns for the same input without that finding.
C14_MalformedDropped ==
    pc # "input" =>
        /\ pc # "TypeError"
        /\ processed = combineResults(WithoutMalformed(results)).vulnerabilities
        /\ consensus = combineResults(WithoutMalformed(results)).consensus

\* the sources of a group that the ToolWeight table lists
Configured(group) ==
    {t \in DOMAIN toolWeights : \E i \in 1..Len(group) : t \in group[i].tools}

\* the group is resolved by resolveConflict
OnConflictPath(group) ==
    LET c == calculateConsensus(group) IN ~c.agreed /\ c.conflict

\* C15: a group resolved through the conflict path yields the finding of the
\* highest-weighted configured source of the group, with confidence high and
\* confidenceScore 100.
C15_ConflictPicksHighest ==
    pc = "combined" =>
        LET groups == groupFindings(results) IN
        \A k \in 1..Len(groups) :
            (OnConflictPath(groups[k]) /\ Configured(groups[k]) # {}) =>
                LET best == CHOOSE t \in Configured(groups[k]) :
                                \A u \in Configured(groups[k]) : toolWeights[u] <= toolWeights[t]
                IN /\ \E i \in 1..Len(groups[k]) :
                         /\ groups[k][i].tools = {best}
                         /\ WithoutConfidence(processed[k]) = WithoutConfidence(groups[k][i])
                   /\ processed[k].confidence = "high"
                   /\ processed[k].confidenceScore = 100 * SCALE

\* C16: the counters count the groups by the path that resolved them: total all
\* groups, agreed the consensus hits, conflicts the groups resolved by
\* resolveConflict, overrides those among them that the override forced.
C16_StatsByPath ==
    pc = "combined" =>
        LET groups == groupFindings(results)
            all == 1..Len(groups)
        IN /\ consensus.total = Len(groups)
           /\ consensus.agreed = Cardinality({k \in all : calculateConsensus(groups[k]).agreed})
           /\ consensus.conflicts = Cardinality({k \in all : OnConflictPath(groups[k])})
           /\ consensus.overrides =
                 Cardinality({k \in all : /\ OnConflictPath(groups[k])
                                          /\ \E i \in 1..Len(groups[k]) : MaxTool \in groups[k][i].tools})

\* C22: a key that one source alone reports, once or several times, is returned
\* as a singleton: confidence low, tools = {that source}, confidenceScore =
\* weight(source) * 50, and its group is resolved neither as agreed nor by
\* resolveConflict.
C22_OneSourceIsSingleton ==
    pc = "combined" =>
        LET groups == groupFindings(results) IN
        \A k \in 1..Len(groups) :
            \A source \in ToolNames :
                (\A i \in 1..Len(groups[k]) : groups[k][i].tools = {source}) =>
                    /\ ~calculateConsensus(groups[k]).agreed
                    /\ ~OnConflictPath(groups[k])
                    /\ processed[k].confidence = "low"
                    /\ processed[k].tools = {source}
                    /\ processed[k].confidenceScore = TableWeight(source) * 50

\* C23: the finding of an agreed group has the description "<title> - <tools>
\* detected" when the descriptions of the group differ, and the title and the
\* description of the group's first finding when they are all the same.
C23_MergedDescription ==
    pc = "combined" =>
        LET groups == groupFindings(results) IN
        \A k \in 1..Len(groups) :
            calculateConsensus(groups[k]).agreed =>
                IF \A i \in 1..Len(groups[k]) : groups[k][i].description = groups[k][1].description
                THEN /\ processed[k].description = groups[k][1].description
                     /\ processed[k].title = groups[k][1].title
                ELSE processed[k].description =
                        groups[k][1].title \o " - " \o Join(AgreedTools(groups[k]), ", ") \o " detected"

\* the IdentityKey of a finding: its file, its first line and its severity
IdentityKey(vuln) == <<vuln.file, vuln.lineStart, vuln.severity>>

\* the raw findings of the input, in the order the sources are read
RECURSIVE RawInOrder(_)
RawInOrder(rs) == IF rs = <<>> THEN <<>> ELSE Head(rs).vulnerabilities \o RawInOrder(Tail(rs))

\* C26: combineResults returns one finding per distinct IdentityKey of the input,
\* in the order in which the keys first occur, and total is their number.
C26_OneFindingPerKey ==
    pc = "combined" =>
        LET raw == RawInOrder(results)
            first == {i \in 1..Len(raw) : \A j \in 1..(i - 1) : IdentityKey(raw[j]) # IdentityKey(raw[i])}
        IN /\ Len(processed) = Cardinality(first)
           /\ consensus.total = Cardinality(first)
           /\ \A k \in 1..Len(processed) :
                 \E i \in first :
                     /\ IdentityKey(processed[k]) = IdentityKey(raw[i])
                     /\ Cardinality({j \in first : j < i}) = k - 1

\* three sources report three findings with two distinct keys: the key of the
\* first finding comes first, and the repeated key is emitted once
C26_Witness ==
    /\ pc = "combined"
    /\ Len(RawInOrder(results)) = 3
    /\ Cardinality(Reporting(results)) = 3
    /\ RawInOrder(results)[1].severity = "low"
    /\ RawInOrder(results)[3].severity = "low"
    /\ Len(processed) = 2
    /\ processed[1].severity = "low" /\ processed[2].severity = "critical"
    /\ consensus.total = 2

\* C27: the filtered list holds no finding that a single source reported: the
\* findings of the singleton path are removed, whatever their severity.
C27_NoSingleSourceSurvives ==
    pc = "filtered" =>
        \A i \in 1..Len(processed) :
            Cardinality(SourcesAt(results, GroupKey(processed[i]))) >= 2

\* the order of the confidence tiers
TierRank(confidence) ==
    IF confidence = "high" THEN 3 ELSE IF confidence = "medium" THEN 2 ELSE 1

\* C28: for findings with scores in 0..100, every finding reduceFalsePositives
\* returns is a finding of its input with a tier that is not lower and a score
\* that is not smaller, and what one application kept a further application keeps,
\* in the same order.
C28_Monotone ==
    passes >= 1 =>
        LET kept == SelectSeq(before, NoDropCondition) IN
        /\ Len(processed) = Len(kept)
        /\ \A i \in 1..Len(kept) :
              /\ processed[i].id = kept[i].id
              /\ TierRank(processed[i].confidence) >= TierRank(kept[i].confidence)
              /\ processed[i].confidenceScore >= kept[i].confidenceScore
        /\ passes >= 2 =>
              /\ Len(processed) = Len(before)
              /\ \A i \in 1..Len(before) :
                    WithoutConfidence(processed[i]) = WithoutConfidence(before[i])

\* a second application that kept both findings of the first, raised the tier
\* of one from medium to high and left a score at the cap of 100
C28_Witness ==
    /\ passes = 2
    /\ Len(before) = 2 /\ Len(processed) = 2
    /\ \E i \in 1..2 :
          /\ before[i].confidence = "medium" /\ processed[i].confidence = "high"
          /\ processed[i].confidenceScore > before[i].confidenceScore
    /\ \E j \in 1..2 :
          before[j].confidenceScore = 100 * SCALE /\ processed[j].confidenceScore = 100 * SCALE

-----------------------------------------------------------------------------
(* Claims about the workspace store *)

MutatingOps == {"addContract", "addVulnerabilities", "addReport"}

Max(S) == CHOOSE x \in S : \A y \in S : y <= x

\* the position of the latest call that created or deleted the workspace, 0 if none
Since(workspaceId) ==
    Max({0} \cup {i \in 1..Len(calls) :
        /\ calls[i].workspaceId = workspaceId
        /\ \/ calls[i].op = "createWorkspace" /\ calls[i].outcome = "ok"
           \/ calls[i].op = "deleteWorkspace" /\ calls[i].outcome = "true"})

\* the positions, in call order, of the successful calls of op made for the pair
\* on the workspace as it exists now
Made(op, workspaceId, pair) ==
    LET since == Since(workspaceId)
    IN SelectSeq([i \in 1..(Len(calls) - since) |-> since + i],
                 LAMBDA i : /\ calls[i].op = op
                            /\ calls[i].workspaceId = workspaceId
                            /\ calls[i].address = pair[1]
                            /\ calls[i].chain = pair[2]
                            /\ calls[i].outcome = "ok")

\* ... and for the chain, whatever the address
MadeOnChain(op, workspaceId, chain) ==
    LET since == Since(workspaceId)
    IN SelectSeq([i \in 1..(Len(calls) - since) |-> since + i],
                 LAMBDA i : /\ calls[i].op = op
                            /\ calls[i].workspaceId = workspaceId
                            /\ calls[i].chain = chain
                            /\ calls[i].outcome = "ok")

\* the list given by the latest addVulnerabilities call for the pair
LatestVulns(workspaceId, pair) ==
    LET made == Made("addVulnerabilities", workspaceId, pair)
    IN IF made = <<>> THEN <<>> ELSE calls[made[Len(made)]].arg

RECURSIVE SumOver(_, _)
SumOver(f, S) == IF S = {} THEN 0 ELSE LET x == CHOOSE x \in S : TRUE IN f[x] + SumOver(f, S \ {x})

RECURSIVE ConcatArgs(_)
ConcatArgs(positions) ==
    IF positions = <<>> THEN <<>> ELSE calls[Head(positions)].arg \o ConcatArgs(Tail(positions))

Occurrences(list, x) == Cardinality({i \in 1..Len(list) : list[i] = x})

\* C5: getWorkspaceStats reports as vulnerabilities the sum, over the (address,
\* chain) pairs, of the length of the list given by the latest addVulnerabilities
\* call for the pair.
C5_StatsCountLatestLists ==
    \A id \in DOMAIN workspaces["m1"] :
        getWorkspaceStats("m1", id)[1].vulnerabilities =
            SumOver([pair \in CallPairs |-> Len(LatestVulns(id, pair))], CallPairs)

\* two calls for one pair, with a list of two and then a list of one: the total is 1
C5_Witness ==
    /\ "w1" \in DOMAIN workspaces["m1"]
    /\ \E p \in CallPairs :
          LET made == Made("addVulnerabilities", "w1", p) IN
          /\ Len(made) = 2
          /\ Len(calls[made[1]].arg) = 2
          /\ Len(calls[made[2]].arg) = 1
    /\ getWorkspaceStats("m1", "w1")[1].vulnerabilities = 1

\* C6: the per-(address, chain) list is the list of the latest addVulnerabilities
\* call for the pair, and the chain-level list of a supported chain is the
\* concatenation, in call order, of the lists of all calls made for the chain.
C6_ReplacePerContractAppendPerChain ==
    \A id \in DOMAIN workspaces["m1"] :
        LET workspace == workspaces["m1"][id] IN
        /\ \A pair \in CallPairs :
              IF Made("addVulnerabilities", id, pair) = <<>>
              THEN ~HasKey(workspace.vulnerabilities, PairKey(pair[1], pair[2]))
              ELSE /\ HasKey(workspace.vulnerabilities, PairKey(pair[1], pair[2]))
                   /\ workspace.vulnerabilities[PairKey(pair[1], pair[2])] = LatestVulns(id, pair)
        /\ \A chain \in SupportedSet :
              workspace.chains[chain].vulnerabilities =
                  ConcatArgs(MadeOnChain("addVulnerabilities", id, chain))

\* the scenario of the specification: [v1, v2] then [v3] for the same contract
C6_Witness ==
    /\ "w1" \in DOMAIN workspaces["m1"]
    /\ HasKey(workspaces["m1"]["w1"].vulnerabilities, "0xAA:ethereum")
    /\ workspaces["m1"]["w1"].vulnerabilities["0xAA:ethereum"] = <<"v3">>
    /\ workspaces["m1"]["w1"].chains["ethereum"].vulnerabilities = <<"v1", "v2", "v3">>

\* C7: after addContract calls for an (address, chain) pair of a supported chain
\* there is one record for the pair, with the data of the latest call, and the
\* chain's contract list holds the address once per call: twice after two calls.
C7_OneRecordTwoEntries ==
    \A id \in DOMAIN workspaces["m1"] :
        LET workspace == workspaces["m1"][id] IN
        /\ \A pair \in CallPairs :
              LET made == Made("addContract", id, pair) IN
              /\ pair[2] \in SupportedSet =>
                    Occurrences(workspace.chains[pair[2]].contracts, pair[1]) = Len(made)
              /\ made # <<>> =>
                    /\ HasKey(workspace.contracts, pair[1])
                    /\ HasKey(workspace.contracts[pair[1]], pair[2])
                    /\ LET record == workspace.contracts[pair[1]][pair[2]]
                           data == calls[made[Len(made)]].arg
                       IN /\ \A k \in DOMAIN data : k \in DOMAIN record /\ record[k] = data[k]
                          /\ record.address = pair[1]
                          /\ record.chain = pair[2]
        /\ \A chain \in SupportedSet :
              Len(workspace.chains[chain].contracts) = Len(MadeOnChain("addContract", id, chain))

\* addContract called twice for one pair, with different data
C7_Witness ==
    /\ "w1" \in DOMAIN workspaces["m1"]
    /\ \E pair \in CallPairs :
          LET made == Made("addContract", "w1", pair) IN
          /\ pair[2] \in SupportedSet
          /\ Len(made) = 2
          /\ calls[made[1]].arg # calls[made[2]].arg
          /\ Occurrences(workspaces["m1"]["w1"].chains[pair[2]].contracts, pair[1]) = 2

\* C8: createWorkspace on an id that has a persisted document fails with
\* AlreadyExists and changes neither the workspaces in memory nor the disk.
C8_CreateExistingFails ==
    [][Len(calls') = Len(calls) + 1 =>
        LET c == calls'[Len(calls')] IN
        (c.op = "createWorkspace" /\ c.workspaceId \in DOMAIN disk) =>
            /\ c.outcome = "AlreadyExists"
            /\ UNCHANGED <<workspaces, disk, files>>]_vars

\* C9: a mutating call on an id that is neither in memory nor on disk signals
\* NotFound and creates nothing for the id; getWorkspaceStats on it returns null.
C9_MissingWorkspace ==
    [][Len(calls') = Len(calls) + 1 =>
        LET c == calls'[Len(calls')] IN
        (c.workspaceId \notin DOMAIN workspaces[c.manager] /\ c.workspaceId \notin DOMAIN disk) =>
            /\ c.op \in MutatingOps =>
                  /\ c.outcome = "NotFound"
                  /\ c.workspaceId \notin DOMAIN workspaces'[c.manager]
                  /\ c.workspaceId \notin DOMAIN disk'
                  /\ UNCHANGED <<workspaces, disk, files>>
            /\ c.op = "getWorkspaceStats" => c.outcome = <<>>]_vars

\* each mutating call and getWorkspaceStats made on a workspace that does not exist
C9_Witness ==
    /\ Len(calls) = 3
    /\ disk = EmptyMap /\ files = EmptyMap /\ workspaces["m1"] = EmptyMap
    /\ \E i, j, k \in 1..3 :
          /\ calls[i].op = "addContract" /\ calls[i].outcome = "NotFound"
          /\ calls[j].op = "addReport" /\ calls[j].outcome = "NotFound"
          /\ calls[k].op = "getWorkspaceStats" /\ calls[k].outcome = <<>>

EmptyChainState == [contracts |-> <<>>, vulnerabilities |-> <<>>, reports |-> <<>>]

\* C10: a workspace, in memory and on disk, has a ChainState for exactly the
\* supported chains, whatever chains createWorkspace was asked for and whatever
\* calls followed, and right after createWorkspace each of them is empty.
C10_EveryChainInitialised ==
    /\ \A id \in DOMAIN workspaces["m1"] :
          /\ DOMAIN workspaces["m1"][id].chains =
                {"ethereum", "bnb", "polygon", "arbitrum", "optimism", "avalanche"}
          /\ (calls[Len(calls)].op = "createWorkspace" /\ calls[Len(calls)].workspaceId = id) =>
                \A chain \in DOMAIN workspaces["m1"][id].chains :
                    workspaces["m1"][id].chains[chain] = EmptyChainState
    /\ \A id \in DOMAIN disk :
          DOMAIN disk[id].chains = {"ethereum", "bnb", "polygon", "arbitrum", "optimism", "avalanche"}

\* created for two of the chains, then used on an unsupported chain and on a
\* requested one: "polygon", which was not requested, has its empty ChainState
C10_Witness ==
    /\ Len(calls) = 3
    /\ calls[1].op = "createWorkspace" /\ calls[1].arg = <<"ethereum", "bnb">>
    /\ calls[2].op \in MutatingOps /\ calls[2].chain = "solana" /\ calls[2].outcome = "ok"
    /\ calls[3].op \in MutatingOps /\ calls[3].chain = "ethereum" /\ calls[3].outcome = "ok"
    /\ workspaces["m1"]["w1"].chains["polygon"] = EmptyChainState
    /\ "solana" \notin DOMAIN workspaces["m1"]["w1"].chains

-----------------------------------------------------------------------------
(* Claims about persistence *)

WritingOps == {"createWorkspace", "addContract", "addVulnerabilities", "addReport"}

\* the four maps of a workspace
Content(workspace) ==
    [chains |-> workspace.chains, contracts |-> workspace.contracts,
     vulnerabilities |-> workspace.vulnerabilities, reports |-> workspace.reports]

\* C11: when createWorkspace, addContract, addVulnerabilities or addReport returns,
\* the document persisted for the id holds the chains, contracts, vulnerabilities
\* and reports of the caller's in-memory workspace (dates written as JSON writes
\* them), and a manager constructed at that point loads exactly those.
C11_WriteThrough ==
    [][Len(calls') = Len(calls) + 1 =>
        LET c == calls'[Len(calls')] IN
        (c.op \in WritingOps /\ c.outcome = "ok") =>
            /\ c.workspaceId \in DOMAIN disk'
            /\ c.workspaceId \in DOMAIN workspaces'[c.manager]
            /\ Content(disk'[c.workspaceId]) =
                   Content(JSONStringify(workspaces'[c.manager][c.workspaceId]))
            /\ Content(loadWorkspaces(disk')[c.workspaceId]) =
                   Content(JSONStringify(workspaces'[c.manager][c.workspaceId]))]_vars

\* a manager that had loaded nothing adds a contract and then a report: the
\* document holds both, as its memory does
C11_Witness ==
    /\ Len(calls) = 2
    /\ workspaces["m1"] # EmptyMap /\ workspaces["m2"] # EmptyMap
    /\ calls[1].op = "addContract" /\ calls[1].outcome = "ok" /\ calls[1].manager = "m2"
    /\ calls[2].op = "addReport" /\ calls[2].outcome = "ok" /\ calls[2].manager = "m2"
    /\ DOMAIN disk["w1"].contracts # {}
    /\ DOMAIN disk["w1"].reports # {}
    /\ Content(disk["w1"]) = Content(JSONStringify(workspaces["m2"]["w1"]))
    /\ Content(disk["w1"]) # Content(workspaces["m1"]["w1"])

\* C12: a mutating call that fails at the document save or at the report-file
\* write leaves the persisted document and what getWorkspaceStats reports for a
\* workspace the manager holds as they were before the call.
C12_AllOrNothing ==
    [][Len(calls') = Len(calls) + 1 =>
        LET c == calls'[Len(calls')] IN
        \A m \in Managers, id \in WorkspaceIds :
            (/\ c.manager = m /\ c.workspaceId = id
             /\ c.outcome = "PersistenceError"
             /\ id \in DOMAIN workspaces[m]) =>
                /\ disk' = disk
                /\ getWorkspaceStats(m, id)' = getWorkspaceStats(m, id)]_vars

\* the keys, in call order, of the successful addReport calls made for the chain
RECURSIVE ReportKeys(_)
ReportKeys(positions) ==
    IF positions = <<>> THEN <<>>
    ELSE <<PairKey(calls[Head(positions)].address, calls[Head(positions)].chain)>>
            \o ReportKeys(Tail(positions))

\* C19: for every (address, chain) key of the reports map, the report file named
\* from the address holds the text stored for the key, which is the text of the
\* latest addReport call for the pair; and the report list of a supported chain
\* holds the key once per addReport call made for the chain, in call order.
C19_ReportArtifacts ==
    \A id \in DOMAIN workspaces["m1"] :
        LET workspace == workspaces["m1"][id] IN
        /\ \A pair \in CallPairs :
              LET key == PairKey(pair[1], pair[2])
                  made == Made("addReport", id, pair)
              IN HasKey(workspace.reports, key) =>
                    /\ made # <<>>
                    /\ workspace.reports[key] = calls[made[Len(made)]].arg
                    /\ HasKey(files, ReportPath(id, pair[1], pair[2]))
                    /\ files[ReportPath(id, pair[1], pair[2])] = workspace.reports[key]
        /\ \A chain \in SupportedSet :
              workspace.chains[chain].reports = ReportKeys(MadeOnChain("addReport", id, chain))

ReadingOps == {"getWorkspaceStats", "loadWorkspace"}

\* the key a mutating call writes in the map of that name
OwnKeys(c, map) ==
    IF c.op = "addContract" /\ map = "contracts" THEN {c.address}
    ELSE IF c.op = "addVulnerabilities" /\ map = "vulnerabilities" THEN {PairKey(c.address, c.chain)}
    ELSE IF c.op = "addReport" /\ map = "reports" THEN {PairKey(c.address, c.chain)}
    ELSE {}

\* C20: a manager that holds a workspace writes the document from what it holds:
\* after its mutating call the document has no key but those it held and the one
\* it wrote, so what another manager saved in between is gone; and a read
\* (getWorkspaceStats, loadWorkspace) changes neither the document, nor the
\* report files, nor a workspace that a manager holds.
C20_WritersNotSynchronized ==
    [][Len(calls') = Len(calls) + 1 =>
        LET c == calls'[Len(calls')] IN
        /\ (c.op \in MutatingOps /\ c.outcome = "ok" /\ c.workspaceId \in DOMAIN workspaces[c.manager]) =>
              \A map \in {"contracts", "vulnerabilities", "reports"} :
                  DOMAIN disk'[c.workspaceId][map] \subseteq
                      DOMAIN workspaces[c.manager][c.workspaceId][map] \cup OwnKeys(c, map)
        /\ c.op \in ReadingOps =>
              /\ disk' = disk
              /\ files' = files
              /\ \A m \in Managers : \A id \in DOMAIN workspaces[m] :
                    id \in DOMAIN workspaces'[m] /\ workspaces'[m][id] = workspaces[m][id]]_vars

\* both managers had loaded the workspace; m1 added vulnerabilities and m2 then
\* added a contract: the document has m2's contract and not m1's vulnerabilities
C20_Witness ==
    /\ Len(calls) = 2
    /\ calls[1].manager = "m1" /\ calls[1].op = "addVulnerabilities" /\ calls[1].outcome = "ok"
    /\ calls[1].arg # <<>>
    /\ calls[2].manager = "m2" /\ calls[2].op = "addContract" /\ calls[2].outcome = "ok"
    /\ HasKey(workspaces["m1"]["w1"].vulnerabilities, PairKey(calls[1].address, calls[1].chain))
    /\ ~HasKey(disk["w1"].vulnerabilities, PairKey(calls[1].address, calls[1].chain))
    /\ HasKey(disk["w1"].contracts, calls[2].address)

-----------------------------------------------------------------------------
(* Claims about the life of a workspace *)

\* the latest call that created or deleted the workspace was a successful delete
Deleted(workspaceId) ==
    Since(workspaceId) > 0 /\ calls[Since(workspaceId)].op = "deleteWorkspace"

\* C21: only a successful deleteWorkspace removes a workspace from the manager
\* and from the disk; after it the id is not listed, getWorkspaceStats returns
\* null and a mutating call throws NotFound, until createWorkspace is called
\* again, which makes an empty workspace.
C21_PresentUntilDeleted ==
    [][Len(calls') = Len(calls) + 1 =>
        LET c == calls'[Len(calls')] IN
        \A id \in WorkspaceIds :
            /\ ~(c.op = "deleteWorkspace" /\ c.workspaceId = id /\ c.outcome = "true") =>
                  /\ id \in listWorkspaces("m1") => id \in listWorkspaces("m1")'
                  /\ id \in DOMAIN disk => id \in DOMAIN disk'
            /\ (c.op = "deleteWorkspace" /\ c.workspaceId = id /\ c.outcome = "true") =>
                  /\ id \notin listWorkspaces("m1")'
                  /\ id \notin DOMAIN disk'
                  /\ getWorkspaceStats("m1", id)' = <<>>
            /\ (Deleted(id) /\ c.workspaceId = id) =>
                  /\ c.op \in MutatingOps => c.outcome = "NotFound" /\ id \notin listWorkspaces("m1")'
                  /\ c.op = "getWorkspaceStats" => c.outcome = <<>>
                  /\ c.op = "createWorkspace" =>
                        /\ c.outcome = "ok"
                        /\ id \in listWorkspaces("m1")'
                        /\ DOMAIN workspaces'["m1"][id].contracts = {}
                        /\ DOMAIN workspaces'["m1"][id].vulnerabilities = {}
                        /\ DOMAIN workspaces'["m1"][id].reports = {}
                        /\ \A chain \in DOMAIN workspaces'["m1"][id].chains :
                              workspaces'["m1"][id].chains[chain] = EmptyChainState]_vars

\* a workspace is created and deleted, and the next mutating call on it throws
\* NotFound
C21_Witness ==
    /\ Len(calls) = 3
    /\ calls[1].op = "createWorkspace" /\ calls[1].outcome = "ok"
    /\ calls[2].op = "deleteWorkspace" /\ calls[2].outcome = "true"
    /\ calls[3].op \in MutatingOps /\ calls[3].outcome = "NotFound"
    /\ "w1" \notin listWorkspaces("m1")
    /\ "w1" \notin DOMAIN disk

-----------------------------------------------------------------------------
(* Claims about the mutating calls *)

\* C24: a mutating call on a workspace the manager holds that names a chain the
\* workspace has no ChainState for throws and changes neither the workspaces in
\* memory, nor the document, nor the files.
C24_UnknownChainRaises ==
    [][Len(calls') = Len(calls) + 1 =>
        LET c == calls'[Len(calls')] IN
        (/\ c.op \in MutatingOps
         /\ c.workspaceId \in DOMAIN workspaces["m1"]
         /\ c.chain \notin DOMAIN workspaces["m1"][c.workspaceId].chains) =>
            /\ c.outcome # "ok"
            /\ UNCHANGED <<workspaces, disk, files>>]_vars

\* C25: after a successful mutating call the updatedAt of the document is the
\* updatedAt of the workspace in memory, as JSON writes it.
C25_PersistedUpdatedAt ==
    [][Len(calls') = Len(calls) + 1 =>
        LET c == calls'[Len(calls')] IN
        (c.op \in MutatingOps /\ c.outcome = "ok") =>
            disk'[c.workspaceId].updatedAt = toJSON(workspaces'[c.manager][c.workspaceId].updatedAt)]_vars

\* C29: a successful addContract, addVulnerabilities or addReport for an
\* (address, chain) pair leaves as they were the record, the vulnerability list
\* and the report of every other pair, the three lists of every other chain, and
\* the two maps the call is not about.
C29_Frame ==
    [][Len(calls') = Len(calls) + 1 =>
        LET c == calls'[Len(calls')] IN
        (c.op \in MutatingOps /\ c.outcome = "ok" /\ c.workspaceId \in DOMAIN workspaces["m1"]) =>
            LET old == workspaces["m1"][c.workspaceId]
                new == workspaces'["m1"][c.workspaceId]
                key == PairKey(c.address, c.chain)
            IN /\ \A a \in DOMAIN old.contracts : \A ch \in DOMAIN old.contracts[a] :
                     (c.op # "addContract" \/ a # c.address \/ ch # c.chain) =>
                         /\ HasKey(new.contracts, a) /\ HasKey(new.contracts[a], ch)
                         /\ new.contracts[a][ch] = old.contracts[a][ch]
               /\ \A k \in DOMAIN old.vulnerabilities :
                     (c.op # "addVulnerabilities" \/ k # key) =>
                         HasKey(new.vulnerabilities, k) /\ new.vulnerabilities[k] = old.vulnerabilities[k]
               /\ \A k \in DOMAIN old.reports :
                     (c.op # "addReport" \/ k # key) =>
                         HasKey(new.reports, k) /\ new.reports[k] = old.reports[k]
               /\ \A ch \in DOMAIN old.chains :
                     ch # c.chain => HasKey(new.chains, ch) /\ new.chains[ch] = old.chains[ch]
               /\ c.op # "addContract" => new.contracts = old.contracts
               /\ c.op # "addVulnerabilities" => new.vulnerabilities = old.vulnerabilities
               /\ c.op # "addReport" => new.reports = old.reports]_vars

\* a contract added on ethereum and then on bnb under the same address: the
\* record and the chain list of ethereum are as the first call left them
C29_Witness ==
    /\ Len(calls) = 3
    /\ calls[2].op = "addContract" /\ calls[2].outcome = "ok"
    /\ calls[2].address = "0xAA" /\ calls[2].chain = "ethereum"
    /\ calls[3].op = "addContract" /\ calls[3].outcome = "ok"
    /\ calls[3].address = "0xAA" /\ calls[3].chain = "bnb"
    /\ "w1" \in DOMAIN workspaces["m1"]
    /\ DOMAIN workspaces["m1"]["w1"].contracts["0xAA"] = {"ethereum", "bnb"}
    /\ workspaces["m1"]["w1"].contracts["0xAA"]["ethereum"].addedAt = [date |-> 1]
    /\ workspaces["m1"]["w1"].chains["ethereum"].contracts = <<"0xAA">>
    /\ workspaces["m1"]["w1"].chains["bnb"].contracts = <<"0xAA">>

-----------------------------------------------------------------------------
(* Claims about the RPC manager *)

====
